---------------------------- MODULE Spec2Model ----------------------------
(***************************************************************************)
(* Model of the server monitor: the per-second accumulator of              *)
(* scripts/monitor.py (Monitor), the merge of aggregate records, the       *)
(* hourly / daily / monthly series files and the tasks of main.py that     *)
(* drive them.                                                             *)
(*                                                                         *)
(* Numbers.  Every metric the program stores is a float rounded to two     *)
(* decimals; the model writes such a value as the integer number of        *)
(* hundredths (1.25 GB is 125).  The accumulator keeps unrounded running   *)
(* averages; the model keeps them as exact fractions <<num, den>>.         *)
(* float("inf") is the fraction <<1, 0>>.  Python's round(x, 2) is         *)
(* modelled on the exact value, ties going to the even hundredth.          *)
(*                                                                         *)
(* Time.  An ISO timestamp is the tuple <<month, day, hour, minute>>,      *)
(* where month counts the months "YYYY-MM" from some origin; the date key  *)
(* "YYYY-MM-DD" is its first two components and the month key "YYYY-MM"    *)
(* its first one, so that slicing and strftime are prefixes and string     *)
(* order is lexicographic order.                                           *)
(***************************************************************************)
EXTENDS Integers, Sequences, FiniteSets, TLC

VARIABLES
    acc,            \* the Monitor object's aggregated fields (monitor.py 25-36)
    file_1h,        \* the file config.json_file_path_1h
    file_1day,      \* the file config.json_file_path_1day
    file_1month,    \* the file config.json_file_path_1month
    clock,          \* the last wall-clock instant the program read
    app,            \* "running" | "stopped": the aiohttp application
    hourly_task,    \* "sleeping" | "failed" | "cancelled": monitor_hourly_loop
    last,           \* what the last step did (observation only)
    nsamples,       \* number of snapshots taken so far
    nruns,          \* number of direct runs of a rollup stage so far
    call            \* the last direct call of _merge_monitor_records

vars == <<acc, file_1h, file_1day, file_1month, clock, app, hourly_task,
          last, nsamples, nruns, call>>

---------------------------------------------------------------------------
(* Configuration (config.py).  The retention limits are configuration      *)
(* values (the repository's test overrides max1d_record_length to 2); the  *)
(* model runs the program with small limits so that every trim happens     *)
(* within a few flushes.                                                   *)
max1h_record_length == 4

max1d_record_length == 3

max1month_record_length == 2

(* Bound of the exploration: the snapshots taken in a run.  Every flush    *)
(* that writes consumes at least one, so it bounds the flushes too.        *)
MaxSamples == 5

(* Bound of the accumulator-level specification: the samples fed between   *)
(* two flushes.                                                            *)
MaxFeed == 4

(* Bound of the stage-level specification: the direct runs of a rollup     *)
(* stage on the same files.                                                *)
MaxRuns == 2

---------------------------------------------------------------------------
(* Arithmetic helpers. *)

Min2(a, b) == IF a <= b THEN a ELSE b

Max2(a, b) == IF a >= b THEN a ELSE b

RECURSIVE Gcd(_, _)
Gcd(a, b) == IF b = 0 THEN a ELSE Gcd(b, a % b)

\* The fraction n/d in lowest terms (d > 0).
Frac(n, d) == LET g == Gcd(n, d) IN IF g = 0 THEN <<0, 1>> ELSE <<n \div g, d \div g>>

FromInt(n) == <<n, 1>>

Inf == <<1, 0>>

FAdd(x, y) == Frac(x[1] * y[2] + y[1] * x[2], x[2] * y[2])

FMulInt(x, k) == Frac(x[1] * k, x[2])

FDivInt(x, k) == Frac(x[1], x[2] * k)

\* x <= y on fractions; Inf = <<1, 0>> compares above every finite value.
FLeq(x, y) == x[1] * y[2] <= y[1] * x[2]

FMin(x, y) == IF FLeq(x, y) THEN x ELSE y

FMax(x, y) == IF FLeq(x, y) THEN y ELSE x

\* round(n/d): the nearest integer, ties to even (n >= 0, d > 0).
RoundDiv(n, d) ==
    LET q == n \div d
        r == n % d
    IN  IF 2 * r < d THEN q
        ELSE IF 2 * r > d THEN q + 1
        ELSE IF q % 2 = 0 THEN q ELSE q + 1

\* round(x, 2) of an unrounded accumulator value, in hundredths.
Round2(x) == RoundDiv(x[1], x[2])

RECURSIVE SumSeq(_)
SumSeq(s) == IF s = <<>> THEN 0 ELSE Head(s) + SumSeq(Tail(s))

RECURSIVE FSumSeq(_)
FSumSeq(s) == IF s = <<>> THEN <<0, 1>> ELSE FAdd(Head(s), FSumSeq(Tail(s)))

---------------------------------------------------------------------------
(* Timestamps. *)

\* The instants at which the model lets the program read the clock: two
\* hours of one date, a second instant within the later hour, the same hour
\* of the next date, and the first hour of two later months.
Instants ==
    { <<1, 1, 0, 0>>, <<1, 1, 1, 0>>, <<1, 1, 1, 30>>, <<1, 2, 1, 0>>,
      <<2, 1, 0, 0>>, <<3, 1, 0, 0>> }

\* The instant the first process starts, before every instant of Instants.
StartInstant == <<0, 1, 0, 0>>

\* Lexicographic order of two keys of the same length (string order of the
\* zero-padded ISO text).
RECURSIVE KeyLeq(_, _)
KeyLeq(a, b) ==
    IF a = <<>> THEN TRUE
    ELSE IF b = <<>> THEN FALSE
    ELSE IF Head(a) < Head(b) THEN TRUE
    ELSE IF Head(a) > Head(b) THEN FALSE
    ELSE KeyLeq(Tail(a), Tail(b))

KeyLt(a, b) == a # b /\ KeyLeq(a, b)

\* dt.date().strftime('%Y-%m-%d'), and the slice [:10] of a timestamp or of
\* a date key.
DateKey(dt) == SubSeq(dt, 1, Min2(2, Len(dt)))

\* datetime.fromisoformat accepts a timestamp or a date "YYYY-MM-DD"; on a
\* month key "YYYY-MM" it raises ValueError.
IsoParses(dt) == Len(dt) >= 2

\* fromisoformat(dt).strftime('%Y-%m') where it parses.
MonthKey(dt) == SubSeq(dt, 1, 1)

\* dt.hour of a timestamp.
HourOf(dt) == dt[3]

---------------------------------------------------------------------------
(* Sequence helpers. *)

RECURSIVE SeqMin(_)
SeqMin(s) == IF Len(s) = 1 THEN s[1] ELSE Min2(Head(s), SeqMin(Tail(s)))

RECURSIVE SeqMax(_)
SeqMax(s) == IF Len(s) = 1 THEN s[1] ELSE Max2(Head(s), SeqMax(Tail(s)))

\* The first n elements, s[:n].
FirstN(s, n) == SubSeq(s, 1, Min2(n, Len(s)))

\* The last n elements, s[-n:] (n >= 1).
LastN(s, n) == SubSeq(s, Max2(1, Len(s) - n + 1), Len(s))

\* The distinct elements of s in order of first occurrence: the key order
\* of a dict filled with setdefault.
RECURSIVE Distinct(_)
Distinct(s) ==
    IF s = <<>> THEN <<>>
    ELSE LET front == Distinct(SubSeq(s, 1, Len(s) - 1))
             x     == s[Len(s)]
         IN  IF \E i \in 1..Len(front) : front[i] = x THEN front ELSE Append(front, x)

\* sorted(records, key=lambda r: r["datetime"]): a stable insertion sort.
RECURSIVE InsertByKey(_, _)
InsertByKey(sorted, r) ==
    IF sorted = <<>> THEN <<r>>
    ELSE LET l == sorted[Len(sorted)]
         IN  IF KeyLeq(l.datetime, r.datetime) THEN Append(sorted, r)
             ELSE Append(InsertByKey(SubSeq(sorted, 1, Len(sorted) - 1), r), l)

RECURSIVE SortByKey(_)
SortByKey(s) ==
    IF s = <<>> THEN <<>>
    ELSE InsertByKey(SortByKey(SubSeq(s, 1, Len(s) - 1)), s[Len(s)])

---------------------------------------------------------------------------
(* Monitor._merge_monitor_records (monitor.py 179-224). *)

IndexError == "IndexError"

\* cpu_per_core_sum[i] += val raises IndexError when a record has more
\* cores than the first one.
MergeRaises(records) ==
    \E k \in 1..Len(records) :
        Len(records[k].cpu_per_core_avg) > Len(records[1].cpu_per_core_avg)

\* Sum of core i over the records that have a core i.
RECURSIVE CoreSum(_, _)
CoreSum(records, i) ==
    IF records = <<>> THEN 0
    ELSE (IF Len(Head(records).cpu_per_core_avg) >= i
          THEN Head(records).cpu_per_core_avg[i] ELSE 0)
         + CoreSum(Tail(records), i)

Field(records, f) == [k \in 1..Len(records) |-> records[k][f]]

\* round(sum / n, 2) of a field (monitor.py 194, 196, 208, 212).
MergedMean(records, f) == RoundDiv(SumSeq(Field(records, f)), Len(records))

\* bandwidth_total += r["bandwidth"]["transfer_total"] (monitor.py 187, 200, 222).
MergedBandwidth(records) == SumSeq(Field(records, "transfer_total"))

\* A variant that keeps the last input's disk usage, as the accumulator does
\* with its samples.
MergedDiskUsedLast(records) == records[Len(records)].disk_used

\* disk_used_max = max(disk_used_max, r["disk"]["used"]), from 0.0
\* (monitor.py 188, 201, 219).
MergedDiskUsed(records) == Max2(0, SeqMax(Field(records, "disk_used")))

merge_monitor_records(records, merged_dt) ==
    IF MergeRaises(records) THEN IndexError
    ELSE
    LET n     == Len(records)
        ncore == Len(records[1].cpu_per_core_avg)
    IN  [ datetime         |-> merged_dt,
          cpu_per_core_avg |-> [i \in 1..ncore |-> RoundDiv(CoreSum(records, i), n)],
          cpu_total_avg    |-> MergedMean(records, "cpu_total_avg"),
          avg_used         |-> MergedMean(records, "avg_used"),
          min_used         |-> SeqMin(Field(records, "min_used")),
          max_used         |-> SeqMax(Field(records, "max_used")),
          ram_total        |-> records[1].ram_total,
          disk_used        |-> MergedDiskUsed(records),
          disk_total       |-> records[1].disk_total,
          transfer_total   |-> MergedBandwidth(records) ]

---------------------------------------------------------------------------
(* The accumulator: Monitor.__init__, update_current_stats and             *)
(* get_and_reset_stats (monitor.py 23-139).                                *)

\* Monitor.__init__ and the reset at the end of get_and_reset_stats.
\* A variant whose ram_min starts at 0 like the other counters.
ZeroAccRamMinZero ==
    [ cpu_per_core_avg |-> <<>>,
      cpu_total_avg    |-> <<0, 1>>,
      ram_avg          |-> <<0, 1>>,
      ram_min          |-> <<0, 1>>,
      ram_max          |-> <<0, 1>>,
      bandwidth_total  |-> 0,
      disk_used        |-> 0,
      disk_total       |-> 0,
      sample_count     |-> 0 ]

ZeroAcc ==
    [ cpu_per_core_avg |-> <<>>,
      cpu_total_avg    |-> <<0, 1>>,
      ram_avg          |-> <<0, 1>>,
      ram_min          |-> Inf,
      ram_max          |-> <<0, 1>>,
      bandwidth_total  |-> 0,
      disk_used        |-> 0,
      disk_total       |-> 0,
      sample_count     |-> 0 ]

\* The snapshots get_and_update_current_stats may produce (hundredths): an
\* idle reading with no RAM in use and no traffic, and a busy one taken
\* after the disk was enlarged.
SnapIdle ==
    [cpu |-> <<1000, 3000>>, ram_used |-> 0, disk_used |-> 2500,
     disk_total |-> 10000, transfer_total |-> 0]

SnapBusy ==
    [cpu |-> <<2001, 5000>>, ram_used |-> 301, disk_used |-> 2000,
     disk_total |-> 20000, transfer_total |-> 150]

Snapshots == {SnapIdle, SnapBusy}

\* psutil.virtual_memory().total read at flush time (hundredths of GB).
RamTotals == {1600}

\* A variant that divides by the old sample count.
IncAvgDividesByN(old, n, val) == FDivInt(FAdd(FMulInt(old, n), FromInt(val)), n)

\* (old_avg * n + new_val) / (n + 1)
IncAvg(old, n, val) == FDivInt(FAdd(FMulInt(old, n), FromInt(val)), n + 1)

\* A variant that averages the old average with the new reading.
UpdateCpuHalves(a, cpu) ==
    IF a.cpu_per_core_avg = <<>>
    THEN [i \in 1..Len(cpu) |-> FromInt(cpu[i])]
    ELSE [i \in 1..Len(cpu) |-> FDivInt(FAdd(a.cpu_per_core_avg[i], FromInt(cpu[i])), 2)]

UpdateCpu(a, cpu) ==
    IF a.cpu_per_core_avg = <<>>
    THEN [i \in 1..Len(cpu) |-> FromInt(cpu[i])]
    ELSE [i \in 1..Len(cpu) |-> IncAvg(a.cpu_per_core_avg[i], a.sample_count, cpu[i])]

\* "if not self.ram_avg": a running average of exactly 0 is overwritten.
UpdateRamAvg(a, ram_used) ==
    IF a.ram_avg[1] = 0
    THEN FromInt(ram_used)
    ELSE IncAvg(a.ram_avg, a.sample_count, ram_used)

update_current_stats(a, s) ==
    LET cores == UpdateCpu(a, s.cpu)
    IN  [ cpu_per_core_avg |-> cores,
          cpu_total_avg    |-> FDivInt(FSumSeq(cores), Len(cores)),
          ram_avg          |-> UpdateRamAvg(a, s.ram_used),
          ram_min          |-> FMin(a.ram_min, FromInt(s.ram_used)),
          ram_max          |-> FMax(a.ram_max, FromInt(s.ram_used)),
          bandwidth_total  |-> a.bandwidth_total + s.transfer_total,
          disk_used        |-> s.disk_used,
          disk_total       |-> s.disk_total,
          sample_count     |-> a.sample_count + 1 ]

\* The record get_and_reset_stats builds when sample_count > 0.
FlushRecord(a, now, ram_total) ==
    [ datetime         |-> now,
      cpu_per_core_avg |-> [i \in 1..Len(a.cpu_per_core_avg) |-> Round2(a.cpu_per_core_avg[i])],
      cpu_total_avg    |-> Round2(a.cpu_total_avg),
      avg_used         |-> Round2(a.ram_avg),
      min_used         |-> Round2(a.ram_min),
      max_used         |-> Round2(a.ram_max),
      ram_total        |-> ram_total,
      disk_used        |-> a.disk_used,
      disk_total       |-> a.disk_total,
      transfer_total   |-> a.bandwidth_total ]

---------------------------------------------------------------------------
(* The series files and Monitor.push_to_file with its rollup stages        *)
(* (monitor.py 141-177, 226-294).                                          *)

\* A series file: absent (or unreadable), or holding a JSON list of records.
MissingFile == [state |-> "missing", records |-> <<>>]

FileOf(recs) == [state |-> "ok", records |-> recs]

\* json.load of a series file inside try/except: a file that cannot be read
\* is the empty list.
LoadOrEmpty(f) == IF f.state = "ok" THEN f.records ELSE <<>>

\* A variant that compares the hour of day only.
SameHourOfDay(last_dt, new_dt) == HourOf(last_dt) = HourOf(new_dt)

\* last_dt.hour == new_dt.hour and last_dt.date() == new_dt.date()
SameHourBucket(last_dt, new_dt) ==
    HourOf(last_dt) = HourOf(new_dt) /\ DateKey(last_dt) = DateKey(new_dt)

\* A variant that appends whatever the last record's bucket is.
MergeOrAppendAlwaysAppends(cur, rec) == Append(cur, rec)

\* monitor.py 151-166: merge into the last record or append.
MergeOrAppend(cur, rec) ==
    IF cur # <<>> /\ SameHourBucket(cur[Len(cur)].datetime, rec.datetime)
    THEN [cur EXCEPT ![Len(cur)] =
              merge_monitor_records(<<cur[Len(cur)], rec>>, cur[Len(cur)].datetime)]
    ELSE Append(cur, rec)

\* A variant that writes the series untruncated.
\* A variant that keeps the last max1h_record_length records.
TruncateHourlyKeepsLast(series) == LastN(series, max1h_record_length)

TruncateHourlyNot(series) == series

\* monitor.py 170-172: current_1h_file_data[:config.max1h_record_length]
TruncateHourly(series) == FirstN(series, max1h_record_length)

\* The hourly series push_to_file writes for the flushed record rec.
PushHourly(f1h, rec) == FileOf(TruncateHourly(MergeOrAppend(LoadOrEmpty(f1h), rec)))

\* The records of s whose key (by keyOf) is k, in order.
RECURSIVE SelectKey(_, _, _)
SelectKey(s, keys, k) ==
    IF s = <<>> THEN <<>>
    ELSE (IF Head(keys) = k THEN <<Head(s)>> ELSE <<>>)
         \o SelectKey(Tail(s), Tail(keys), k)

\* A variant that keeps the first records, as the hourly truncation does.
TrimDailyKeepsFirst(records) == FirstN(SortByKey(records), max1d_record_length)

\* monitor.py 256: sorted(...)[-config.max1d_record_length:]
TrimDaily(records) == LastN(SortByKey(records), max1d_record_length)

\* monitor.py 291: sorted(...)[-config.max1month_record_length:]
TrimMonthly(records) == LastN(SortByKey(records), max1month_record_length)

\* monitor.py 242-248: the groups of _push_to_file_1day in dict order, each
\* the hourly records of a date followed by the stored daily record of it.
DailyGroups(data_1h, file_records_1d) ==
    LET hkeys == [i \in 1..Len(data_1h) |-> DateKey(data_1h[i].datetime)]
        dkeys == [i \in 1..Len(file_records_1d) |-> file_records_1d[i].datetime]
        keys  == Distinct(hkeys \o dkeys)
    IN  [i \in 1..Len(keys) |->
            SelectKey(data_1h, hkeys, keys[i]) \o SelectKey(file_records_1d, dkeys, keys[i])]

\* monitor.py 250-254
DailyRecords(groups) ==
    [i \in 1..Len(groups) |->
        merge_monitor_records(groups[i], DateKey(groups[i][1].datetime))]

\* The outcome of a rollup stage: it wrote records, returned without
\* writing, or raised.
Wrote(recs) == [status |-> "written", records |-> recs]

NoWrite == [status |-> "no write", records |-> <<>>]

Raised(exc) == [status |-> exc, records |-> <<>>]

\* Monitor._push_to_file_1day: the daily series written, or NoWrite when the
\* hourly file cannot be read or is empty.
PushDaily(f1h, f1d) ==
    IF f1h.state # "ok" \/ f1h.records = <<>> THEN NoWrite
    ELSE Wrote(TrimDaily(DailyRecords(DailyGroups(f1h.records, LoadOrEmpty(f1d)))))

\* monitor.py 277-283
MonthlyGroups(data_1day_list, file_records_1month) ==
    LET dkeys == [i \in 1..Len(data_1day_list) |-> MonthKey(data_1day_list[i].datetime)]
        mkeys == [i \in 1..Len(file_records_1month) |-> file_records_1month[i].datetime]
        keys  == Distinct(dkeys \o mkeys)
    IN  [i \in 1..Len(keys) |->
            SelectKey(data_1day_list, dkeys, keys[i])
            \o SelectKey(file_records_1month, mkeys, keys[i])]

ValueError == "ValueError"

\* monitor.py 287: datetime.fromisoformat(recs[0]["datetime"]) raises
\* ValueError when the first record of a group is a stored monthly record.
MonthlyRaises(groups) == \E i \in 1..Len(groups) : ~IsoParses(groups[i][1].datetime)

\* monitor.py 285-289
MonthlyRecords(groups) ==
    [i \in 1..Len(groups) |->
        merge_monitor_records(groups[i], MonthKey(groups[i][1].datetime))]

\* Monitor._push_to_file_1month: the monthly series written, NoWrite when
\* the daily file cannot be read or is empty, ValueError when it raises
\* (before writing anything).
PushMonthly(f1d, f1m) ==
    IF f1d.state # "ok" \/ f1d.records = <<>> THEN NoWrite
    ELSE LET groups == MonthlyGroups(f1d.records, LoadOrEmpty(f1m))
         IN  IF MonthlyRaises(groups) THEN Raised(ValueError)
             ELSE Wrote(TrimMonthly(MonthlyRecords(groups)))

\* What a stage leaves in its file.
Written(result, old) == IF result.status = "written" THEN FileOf(result.records) ELSE old

---------------------------------------------------------------------------
(* The state machine: the tasks of main.py acting on one Monitor.          *)

NoOp == [op |-> "init", hourly |-> "-", daily |-> "-", monthly |-> "-", prior |-> "-"]

NoCall ==
    [op |-> "none", records |-> <<>>, merged_dt |-> <<>>, status |-> "none", result |-> <<>>]

Init ==
    /\ acc = ZeroAcc
    /\ file_1h = MissingFile
    /\ file_1day = MissingFile
    /\ file_1month = MissingFile
    /\ clock = StartInstant
    /\ app = "running"
    /\ hourly_task = "sleeping"
    /\ last = NoOp
    /\ nsamples = 0
    /\ nruns = 0
    /\ call = NoCall

\* monitor_sampling_loop (main.py 17-20): get_and_update_current_stats.
Sample ==
    /\ app = "running"
    /\ nsamples < MaxSamples
    /\ \E s \in Snapshots : acc' = update_current_stats(acc, s)
    /\ nsamples' = nsamples + 1
    /\ last' = [NoOp EXCEPT !.op = "sample"]
    /\ UNCHANGED <<file_1h, file_1day, file_1month, clock, app, hourly_task, nruns, call>>

\* A variant of the empty flush in which push_to_file does not return
\* before the rollups.
FlushNothingCascades(op) ==
    /\ last' = [NoOp EXCEPT !.op = op]
    /\ file_1day' = Written(PushDaily(file_1h, file_1day), file_1day)
    /\ file_1month' = Written(PushMonthly(file_1day', file_1month), file_1month)
    /\ UNCHANGED <<acc, file_1h, clock>>

\* get_and_reset_stats returns None when sample_count is 0 (monitor.py
\* 107-108) and push_to_file returns at once (143-144).
FlushNothing(op) ==
    /\ last' = [NoOp EXCEPT !.op = op]
    /\ UNCHANGED <<acc, file_1h, file_1day, file_1month, clock>>

\* A variant of push_to_file in which the daily stage works from the hourly
\* series as it was before this flush, and the monthly stage from the daily
\* series as it was before this flush.
push_to_file_reads_stale(op, now, ram_total) ==
    IF acc.sample_count = 0
    THEN FlushNothing(op)
    ELSE LET rec   == FlushRecord(acc, now, ram_total)
             cur   == LoadOrEmpty(file_1h)
             new1h == PushHourly(file_1h, rec)
             day   == PushDaily(file_1h, file_1day)
             new1d == Written(day, file_1day)
             month == PushMonthly(file_1day, file_1month)
         IN  /\ acc' = ZeroAcc
             /\ clock' = now
             /\ file_1h' = new1h
             /\ file_1day' = new1d
             /\ file_1month' = Written(month, file_1month)
             /\ last' = [ op      |-> op,
                          hourly  |-> IF Len(new1h.records) = Len(cur) THEN
                                          (IF MergeOrAppend(cur, rec) = new1h.records
                                           THEN "merged" ELSE "dropped")
                                      ELSE "appended",
                          daily   |-> day.status,
                          monthly |-> month.status,
                          prior   |-> file_1h.state ]

\* Monitor.push_to_file called at instant now by caller op.
push_to_file(op, now, ram_total) ==
    IF acc.sample_count = 0
    THEN FlushNothing(op)
    ELSE LET rec   == FlushRecord(acc, now, ram_total)
             cur   == LoadOrEmpty(file_1h)
             new1h == PushHourly(file_1h, rec)
             day   == PushDaily(new1h, file_1day)
             new1d == Written(day, file_1day)
             month == PushMonthly(new1d, file_1month)
         IN  /\ acc' = ZeroAcc
             /\ clock' = now
             /\ file_1h' = new1h
             /\ file_1day' = new1d
             /\ file_1month' = Written(month, file_1month)
             /\ last' = [ op      |-> op,
                          hourly  |-> IF Len(new1h.records) = Len(cur) THEN
                                          (IF MergeOrAppend(cur, rec) = new1h.records
                                           THEN "merged" ELSE "dropped")
                                      ELSE "appended",
                          daily   |-> day.status,
                          monthly |-> month.status,
                          prior   |-> file_1h.state ]

\* monitor_hourly_loop (main.py 22-29): wakes on the hour and flushes; an
\* exception out of push_to_file ends the task.
HourlyTick ==
    /\ app = "running"
    /\ hourly_task = "sleeping"
    /\ \E now \in Instants, rt \in RamTotals :
          /\ now[4] = 0
          /\ KeyLt(clock, now)
          /\ push_to_file("tick", now, rt)
    /\ hourly_task' = IF last'.monthly = ValueError THEN "failed" ELSE "sleeping"
    /\ UNCHANGED <<app, nsamples, nruns, call>>

\* cleanup_background_tasks (main.py 35-42): flush, then cancel the tasks.
Shutdown ==
    /\ app = "running"
    /\ \E now \in Instants, rt \in RamTotals :
          /\ KeyLt(clock, now)
          /\ push_to_file("shutdown", now, rt)
    /\ app' = "stopped"
    /\ hourly_task' = "cancelled"
    /\ UNCHANGED <<nsamples, nruns, call>>

\* The process is started again (main.py 14, 31-33): a new Monitor and new
\* tasks over the files the previous run left.
Restart ==
    /\ app = "stopped"
    /\ app' = "running"
    /\ hourly_task' = "sleeping"
    /\ acc' = ZeroAcc
    /\ last' = [NoOp EXCEPT !.op = "restart"]
    /\ UNCHANGED <<file_1h, file_1day, file_1month, clock, nsamples, nruns, call>>

Next == Sample \/ HourlyTick \/ Shutdown \/ Restart

Spec == Init /\ [][Next]_vars

---------------------------------------------------------------------------
(* Stage level: a rollup stage run directly (as the repository's test runs *)
(* _push_to_file_1day) or one flush, over series files left by earlier     *)
(* runs.  The files are drawn from the series the program writes: at most  *)
(* the retention limit of records, one per bucket, in ascending order.     *)

\* The ascending sequence of a set of keys.
RECURSIVE SeqOfKeys(_)
SeqOfKeys(S) ==
    IF S = {} THEN <<>>
    ELSE LET mn == CHOOSE x \in S : \A y \in S : KeyLeq(x, y)
         IN  <<mn>> \o SeqOfKeys(S \ {mn})

\* An hourly record as a one-sample flush at instant t writes it.
HourlyRecordAt(t) ==
    FlushRecord(update_current_stats(ZeroAcc,
                    IF (t[1] + t[2] + t[3]) % 2 = 1 THEN SnapBusy ELSE SnapIdle),
                t, CHOOSE rt \in RamTotals : TRUE)

\* The daily record of a date with one hourly record, and the monthly record
\* of a month with one such day.
DailyRecordAt(k) == merge_monitor_records(<<HourlyRecordAt(<<k[1], k[2], 0, 0>>)>>, k)

MonthlyRecordAt(k) == merge_monitor_records(<<DailyRecordAt(<<k[1], 1>>)>>, k)

HourlySeries ==
    { [i \in 1..Cardinality(S) |-> HourlyRecordAt(SeqOfKeys(S)[i])] :
        S \in { T \in SUBSET Instants :
                  /\ T # {}
                  /\ Cardinality(T) <= max1h_record_length
                  /\ \A a, b \in T : SubSeq(a, 1, 3) = SubSeq(b, 1, 3) => a = b } }

DailySeries ==
    { [i \in 1..Cardinality(S) |-> DailyRecordAt(SeqOfKeys(S)[i])] :
        S \in { T \in SUBSET { DateKey(t) : t \in Instants } :
                  T # {} /\ Cardinality(T) <= max1d_record_length } }

MonthlySeries ==
    { [i \in 1..Cardinality(S) |-> MonthlyRecordAt(SeqOfKeys(S)[i])] :
        S \in { T \in SUBSET { MonthKey(t) : t \in Instants } :
                  T # {} /\ Cardinality(T) <= max1month_record_length } }

\* The first instant that is not before any key stored in the files: the
\* time of the flush that left them.
ClockAfter(f1h, f1d, f1m) ==
    LET ok(t) == /\ \A i \in 1..Len(f1h.records) : KeyLeq(f1h.records[i].datetime, t)
                 /\ \A i \in 1..Len(f1d.records) : KeyLeq(f1d.records[i].datetime, DateKey(t))
                 /\ \A i \in 1..Len(f1m.records) : KeyLeq(f1m.records[i].datetime, MonthKey(t))
    IN  CHOOSE t \in Instants \cup {StartInstant} :
            ok(t) /\ \A u \in Instants \cup {StartInstant} : ok(u) => KeyLeq(t, u)

InitRollup ==
    /\ file_1h \in {MissingFile} \cup {FileOf(x) : x \in HourlySeries}
    /\ file_1day \in {MissingFile} \cup {FileOf(x) : x \in DailySeries}
    /\ file_1month \in {MissingFile} \cup {FileOf(x) : x \in MonthlySeries}
    /\ acc = update_current_stats(ZeroAcc, SnapBusy)
    /\ clock = ClockAfter(file_1h, file_1day, file_1month)
    /\ app = "running"
    /\ hourly_task = "sleeping"
    /\ last = NoOp
    /\ nsamples = MaxSamples
    /\ nruns = 0
    /\ call = NoCall

\* Monitor._push_to_file_1day called on its own.
RunPushDaily ==
    /\ nruns < MaxRuns
    /\ nruns' = nruns + 1
    /\ LET day == PushDaily(file_1h, file_1day)
       IN  /\ file_1day' = Written(day, file_1day)
           /\ last' = [NoOp EXCEPT !.op = "pushDaily", !.daily = day.status,
                                   !.prior = file_1day.state]
    /\ UNCHANGED <<acc, file_1h, file_1month, clock, app, hourly_task, nsamples, call>>

\* Monitor._push_to_file_1month called on its own.
RunPushMonthly ==
    /\ nruns < MaxRuns
    /\ nruns' = nruns + 1
    /\ LET month == PushMonthly(file_1day, file_1month)
       IN  /\ file_1month' = Written(month, file_1month)
           /\ last' = [NoOp EXCEPT !.op = "pushMonthly", !.monthly = month.status,
                                   !.prior = file_1month.state]
    /\ UNCHANGED <<acc, file_1h, file_1day, clock, app, hourly_task, nsamples, call>>

\* One flush of the hourly task, when no stage was run directly.
FlushOnce == nruns = 0 /\ HourlyTick

NextRollup == RunPushDaily \/ RunPushMonthly \/ FlushOnce

SpecRollup == InitRollup /\ [][NextRollup]_vars

---------------------------------------------------------------------------
(* Properties. *)

Recs1h == file_1h.records

Recs1d == file_1day.records

Recs1m == file_1month.records

\* A step in which push_to_file ran to the point of building a record.
FlushedStep == last'.op \in {"tick", "shutdown"} /\ acc.sample_count > 0

\* (date, hour) of a timestamp: the bucket of an hourly record.
HourBucket(dt) == SubSeq(dt, 1, 3)

\* The hourly records of date k.
HourlyOfDate(k) == SelectSeq(Recs1h, LAMBDA r : SubSeq(r.datetime, 1, 2) = k)

\* C2: the daily record of a date whose hourly records are all retained has
\* for transfer_total the sum of their transfer_total.
C2_DailyBandwidthIsSumOfHourly ==
    Len(Recs1h) < max1h_record_length =>
        \A i \in 1..Len(Recs1d) :
            HourlyOfDate(Recs1d[i].datetime) # <<>> =>
                Recs1d[i].transfer_total
                    = SumSeq(Field(HourlyOfDate(Recs1d[i].datetime), "transfer_total"))


\* C4: a flush into the hour bucket of the last hourly record keeps the
\* length of the series, replaces the last record by the merge of it and the
\* new record under the last record's own datetime and leaves the earlier
\* records alone; any other flush into a series that is not full appends the
\* new record.
C4_FlushStep ==
    FlushedStep =>
        \E rt \in RamTotals :
            LET new == FlushRecord(acc, clock', rt)
                old == IF file_1h.state = "ok" THEN Recs1h ELSE <<>>
                n   == Len(old)
            IN  IF n > 0 /\ HourBucket(old[n].datetime) = HourBucket(new.datetime)
                THEN /\ Len(file_1h'.records) = n
                     /\ file_1h'.records[n]
                            = merge_monitor_records(<<old[n], new>>, old[n].datetime)
                     /\ file_1h'.records[n].datetime = old[n].datetime
                     /\ \A i \in 1..(n - 1) : file_1h'.records[i] = old[i]
                ELSE n < max1h_record_length => file_1h'.records = Append(old, new)

C4_SameHourFlushMergesInPlace == [][C4_FlushStep]_vars

\* C4 witness: a flush merged into the last of several hourly records, whose
\* datetime is older than the flush.
C4_Witness ==
    /\ last.hourly = "merged"
    /\ Len(Recs1h) >= 2
    /\ Recs1h[Len(Recs1h)].datetime # clock

\* C5: a flush with no sample leaves the accumulator and the three series
\* files as they were and runs no rollup stage.
C5_EmptyFlushStep ==
    (last'.op \in {"tick", "shutdown"} /\ acc.sample_count = 0) =>
        /\ UNCHANGED <<acc, file_1h, file_1day, file_1month>>
        /\ last'.hourly = "-" /\ last'.daily = "-" /\ last'.monthly = "-"

C5_EmptyFlushChangesNothing == [][C5_EmptyFlushStep]_vars

\* C5 witness: a flush that produced no record, over files that hold data
\* whose bandwidth a further rollup would count again.
C5_Witness ==
    /\ last.op \in {"tick", "shutdown"}
    /\ last.hourly = "-"
    /\ file_1h.state = "ok" /\ file_1day.state = "ok" /\ file_1month.state = "ok"
    /\ Recs1h[1].transfer_total > 0

RamOrdered(r) == r.min_used <= r.avg_used /\ r.avg_used <= r.max_used

AllRecords(f) == \A i \in 1..Len(f.records) : RamOrdered(f.records[i])

\* C6: once a sample was taken ram_min <= ram_avg <= ram_max in the
\* accumulator, and every stored record, flushed or merged, has
\* min_used <= avg_used <= max_used.
C6_RamMinAvgMaxOrdered ==
    /\ acc.sample_count >= 1 =>
          FLeq(acc.ram_min, acc.ram_avg) /\ FLeq(acc.ram_avg, acc.ram_max)
    /\ AllRecords(file_1h) /\ AllRecords(file_1day) /\ AllRecords(file_1month)

\* C6 witness: two samples with different RAM readings in the accumulator,
\* average strictly between the extrema, and a daily record merged from two
\* hourly records that has the same shape.
C6_Witness ==
    /\ acc.sample_count = 2
    /\ acc.ram_min # acc.ram_avg /\ acc.ram_avg # acc.ram_max
    /\ \E i \in 1..Len(Recs1d) :
          /\ Len(HourlyOfDate(Recs1d[i].datetime)) >= 2
          /\ Recs1d[i].min_used < Recs1d[i].avg_used
          /\ Recs1d[i].avg_used < Recs1d[i].max_used


\* C7: each series file holds at most the retention limit of its
\* granularity.
C7_SeriesWithinRetention ==
    /\ Len(Recs1h) <= max1h_record_length
    /\ Len(Recs1d) <= max1d_record_length
    /\ Len(Recs1m) <= max1month_record_length

\* C7 witness: the three series at their limits after a flush.
C7_Witness ==
    /\ last.op \in {"tick", "shutdown"}
    /\ Len(Recs1h) = max1h_record_length
    /\ Len(Recs1d) = max1d_record_length
    /\ Len(Recs1m) = max1month_record_length

\* s holds keys (by key) in strictly ascending order.
Ascending(recs, key(_)) ==
    \A i, j \in 1..Len(recs) : i < j => KeyLt(key(recs[i].datetime), key(recs[j].datetime))

SameKey(dt) == dt

\* C8: in each series the bucket keys are pairwise different and ascending.
C8_SeriesUniqueAndAscending ==
    /\ Ascending(Recs1h, HourBucket)
    /\ Ascending(Recs1d, SameKey)
    /\ Ascending(Recs1m, SameKey)

\* C8 witness: several records in each series, two of the hourly ones on
\* the same date.
C8_Witness ==
    /\ Len(Recs1h) >= 3 /\ Len(Recs1d) >= 2 /\ Len(Recs1m) >= 2
    /\ \E i \in 1..Len(Recs1d) : Len(HourlyOfDate(Recs1d[i].datetime)) >= 2

\* The n greatest keys of the set S.
Greatest(S, n) == {k \in S : Cardinality({j \in S : KeyLt(k, j)}) < n}

Keys(recs) == [i \in 1..Len(recs) |-> recs[i].datetime]

KeySet(f) == IF f.state = "ok" THEN {f.records[i].datetime : i \in 1..Len(f.records)} ELSE {}

\* C9: the daily series written holds, ascending, the max1d_record_length
\* greatest keys among the dates of the hourly series and the keys of the
\* previous daily series; the monthly series written holds the
\* max1month_record_length greatest among the months of the daily series
\* and the keys of the previous monthly series.
C9_Step ==
    /\ last'.daily = "written" =>
          Keys(file_1day'.records) =
              SeqOfKeys(Greatest({SubSeq(k, 1, 2) : k \in KeySet(file_1h')}
                                     \cup KeySet(file_1day),
                                 max1d_record_length))
    /\ last'.monthly = "written" =>
          Keys(file_1month'.records) =
              SeqOfKeys(Greatest({SubSeq(k, 1, 1) : k \in KeySet(file_1day')}
                                     \cup KeySet(file_1month),
                                 max1month_record_length))

C9_RollupsKeepTrailingWindow == [][C9_Step]_vars

\* C9 witness: a flush after which the hourly series holds a date older
\* than every daily record and the daily series a month older than every
\* monthly record: both rollups dropped their oldest key.
C9_Witness ==
    /\ last.daily = "written" /\ last.monthly = "written"
    /\ \E i \in 1..Len(Recs1h) : KeyLt(SubSeq(Recs1h[i].datetime, 1, 2), Recs1d[1].datetime)
    /\ \E i \in 1..Len(Recs1d) : KeyLt(SubSeq(Recs1d[i].datetime, 1, 1), Recs1m[1].datetime)


\* C1: running _push_to_file_1day (or _push_to_file_1month) again right
\* after a run of it leaves its output file as the first run wrote it.
C1_Step ==
    /\ (last.op = "pushDaily" /\ last'.op = "pushDaily") => file_1day' = file_1day
    /\ (last.op = "pushMonthly" /\ last'.op = "pushMonthly") => file_1month' = file_1month

C1_RollupRerunIsIdempotent == [][C1_Step]_vars

Abs(x) == IF x < 0 THEN -x ELSE x

\* out is the mean of the values vals to within half a hundredth.
NearMean(out, vals) == 2 * Abs(Len(vals) * out - SumSeq(vals)) <= Len(vals)

\* r is the rollup of the records ins: means, sum, maximum and extrema.
IsRollupOf(r, ins) ==
    /\ NearMean(r.cpu_total_avg, Field(ins, "cpu_total_avg"))
    /\ Len(r.cpu_per_core_avg) = Len(ins[1].cpu_per_core_avg)
    /\ \A c \in 1..Len(r.cpu_per_core_avg) :
          NearMean(r.cpu_per_core_avg[c], [k \in 1..Len(ins) |-> ins[k].cpu_per_core_avg[c]])
    /\ NearMean(r.avg_used, Field(ins, "avg_used"))
    /\ r.transfer_total = SumSeq(Field(ins, "transfer_total"))
    /\ r.disk_used = SeqMax(Field(ins, "disk_used"))
    /\ r.min_used = SeqMin(Field(ins, "min_used"))
    /\ r.max_used = SeqMax(Field(ins, "max_used"))

HourlyDates == {SubSeq(k, 1, 2) : k \in KeySet(file_1h)}

\* A run of _push_to_file_1day that found no daily file and wrote one.
FirstDailyStep ==
    last'.op = "pushDaily" /\ file_1day.state = "missing" /\ last'.daily = "written"

\* C3 as claimed: with no daily series yet, pushDaily writes one record for
\* every date of the hourly series, each the rollup of that date's hourly
\* records.
C3_StepAllDates ==
    FirstDailyStep =>
        /\ Keys(file_1day'.records) = SeqOfKeys(HourlyDates)
        /\ \A i \in 1..Len(file_1day'.records) :
              IsRollupOf(file_1day'.records[i], HourlyOfDate(file_1day'.records[i].datetime))

C3_FirstDailyCoversEveryDate == [][C3_StepAllDates]_vars

\* C3 amended: with no daily series yet, pushDaily writes one record for each
\* of the max1d_record_length latest dates of the hourly series, each the
\* rollup of that date's hourly records.
C3_StepLatestDates ==
    FirstDailyStep =>
        /\ Keys(file_1day'.records) = SeqOfKeys(Greatest(HourlyDates, max1d_record_length))
        /\ \A i \in 1..Len(file_1day'.records) :
              IsRollupOf(file_1day'.records[i], HourlyOfDate(file_1day'.records[i].datetime))

C3_FirstDailyCoversLatestDates == [][C3_StepLatestDates]_vars

\* C3 witness: a first daily series of several dates, one of them rolled up
\* from two hourly records with different disk usage.
C3_Witness ==
    /\ last.op = "pushDaily" /\ last.prior = "missing" /\ last.daily = "written"
    /\ nruns = 1
    /\ Len(Recs1d) >= 2
    /\ \E i \in 1..Len(Recs1d) :
          LET ins == HourlyOfDate(Recs1d[i].datetime)
          IN  Len(ins) >= 2 /\ ins[1].disk_used # ins[2].disk_used


---------------------------------------------------------------------------
\* _merge_monitor_records called on its own on lists of finalized records.

\* A sample taken on a host that reports a single core.
SnapOneCore ==
    [cpu |-> <<4000>>, ram_used |-> 200, disk_used |-> 2200,
     disk_total |-> 10000, transfer_total |-> 50]

\* Records as get_and_reset_stats finalizes them, one sample each.
MergeRecords ==
    { FlushRecord(update_current_stats(ZeroAcc, s), t, 1600) :
        s \in Snapshots \cup {SnapOneCore}, t \in {<<1, 1, 0, 0>>, <<1, 1, 1, 0>>} }

\* Non-empty lists of at most three records.
MergeInputs ==
    UNION { [1..n -> MergeRecords] : n \in 1..3 }

\* The bucket keys a caller supplies: an hourly timestamp or a date.
MergeKeys == { <<1, 1, 1, 0>>, <<1, 2>> }

InitMerge ==
    /\ acc = ZeroAcc
    /\ file_1h = MissingFile
    /\ file_1day = MissingFile
    /\ file_1month = MissingFile
    /\ clock = StartInstant
    /\ app = "running"
    /\ hourly_task = "sleeping"
    /\ last = NoOp
    /\ nsamples = 0
    /\ nruns = 0
    /\ call = NoCall

\* self._merge_monitor_records(records, merged_dt)
CallMerge ==
    /\ \E records \in MergeInputs, merged_dt \in MergeKeys :
          call' = [ records   |-> records,
                    merged_dt |-> merged_dt,
                    status    |-> IF MergeRaises(records) THEN IndexError ELSE "ok",
                    result    |-> IF MergeRaises(records) THEN <<>>
                                  ELSE <<merge_monitor_records(records, merged_dt)>> ]
    /\ UNCHANGED <<acc, file_1h, file_1day, file_1month, clock, app,
                   hourly_task, last, nsamples, nruns>>

NextMerge == CallMerge

SpecMerge == InitMerge /\ [][NextMerge]_vars

\* The bijections of 1..n.
Perms(n) == { f \in [1..n -> 1..n] : \A i, j \in 1..n : f[i] = f[j] => i = j }

Permuted(records, f) == [i \in 1..Len(records) |-> records[f[i]]]

\* The numeric outputs of a merged record: everything but its datetime.
Numeric(r) == [r EXCEPT !.datetime = <<>>]

\* C10: whatever the order of its inputs, merge has the same outcome
\* (a record or an exception) and the same numeric outputs, and the
\* datetime of the record it returns is the supplied key.
C10_MergeIsCommutative ==
    call.status # "none" =>
        /\ call.status = "ok" => call.result[1].datetime = call.merged_dt
        /\ \A f \in Perms(Len(call.records)) :
              LET p == Permuted(call.records, f)
              IN  /\ MergeRaises(p) <=> call.status = IndexError
                  /\ (call.status = "ok" /\ ~MergeRaises(p)) =>
                        Numeric(merge_monitor_records(p, call.merged_dt))
                            = Numeric(call.result[1])


---------------------------------------------------------------------------
\* C14: a flush into a new hour when the hourly series holds
\* max1h_record_length records leaves the hourly series as it was: the new
\* record is discarded and the oldest record stays.
C14_FullStep ==
    \A rt \in RamTotals :
        (/\ FlushedStep
         /\ file_1h.state = "ok"
         /\ Len(Recs1h) = max1h_record_length
         /\ HourBucket(Recs1h[Len(Recs1h)].datetime)
                # HourBucket(FlushRecord(acc, clock', rt).datetime))
        => /\ file_1h' = file_1h
           /\ \A i \in 1..Len(file_1h'.records) :
                 file_1h'.records[i] # FlushRecord(acc, clock', rt)

C14_FullHourlySeriesDiscardsNewRecord == [][C14_FullStep]_vars

\* C14 witness: a flush whose record was cut off again, the series still
\* starting with its oldest record and ending before the flush.
C14_Witness ==
    /\ last.op \in {"tick", "shutdown"}
    /\ last.hourly = "dropped"
    /\ Len(Recs1h) = max1h_record_length
    /\ KeyLt(Recs1h[Len(Recs1h)].datetime, clock)


---------------------------------------------------------------------------
(* Accumulator level: update_current_stats and get_and_reset_stats called  *)
(* on one Monitor.  call.records holds the snapshots fed since the last    *)
(* flush and call.result the record the last flush returned.               *)

\* A reading with one core saturated and the other idle.
SnapPeak ==
    [cpu |-> <<10000, 0>>, ram_used |-> 800, disk_used |-> 3000,
     disk_total |-> 20000, transfer_total |-> 25]

AccSnapshots == Snapshots \cup {SnapPeak}

InitAcc ==
    /\ acc = ZeroAcc
    /\ file_1h = MissingFile
    /\ file_1day = MissingFile
    /\ file_1month = MissingFile
    /\ clock = StartInstant
    /\ app = "running"
    /\ hourly_task = "sleeping"
    /\ last = NoOp
    /\ nsamples = 0
    /\ nruns = 0
    /\ call = NoCall

\* monitor.update_current_stats(snapshot)
Feed ==
    /\ Len(call.records) < MaxFeed
    /\ \E s \in AccSnapshots :
          /\ acc' = update_current_stats(acc, s)
          /\ call' = [call EXCEPT !.records = Append(@, s), !.status = "fed"]
    /\ UNCHANGED <<file_1h, file_1day, file_1month, clock, app, hourly_task,
                   last, nsamples, nruns>>

\* monitor.get_and_reset_stats()
FlushAcc ==
    /\ \E rt \in RamTotals :
          IF acc.sample_count = 0
          THEN /\ call' = [call EXCEPT !.status = "none returned", !.result = <<>>]
               /\ acc' = acc
          ELSE /\ call' = [call EXCEPT !.records = <<>>, !.status = "flushed",
                                       !.result = <<FlushRecord(acc, clock, rt)>>]
               /\ acc' = ZeroAcc
    /\ UNCHANGED <<file_1h, file_1day, file_1month, clock, app, hourly_task,
                   last, nsamples, nruns>>

NextAcc == Feed \/ FlushAcc

SpecAcc == InitAcc /\ [][NextAcc]_vars


\* The exact mean of core i (or of the RAM readings) over the snapshots fed.
MeanOfCore(samples, i) ==
    Frac(SumSeq([k \in 1..Len(samples) |-> samples[k].cpu[i]]), Len(samples))

MeanOfRam(samples) ==
    Frac(SumSeq([k \in 1..Len(samples) |-> samples[k].ram_used]), Len(samples))

\* C15: after k >= 1 updates of a fresh or freshly flushed accumulator
\* ram_avg is the arithmetic mean of the k ram_used values.
C15_RamAvgIsMean ==
    call.records # <<>> => acc.ram_avg = MeanOfRam(call.records)

\* C16: after every update cpu_per_core_avg is as long as the first
\* sample's core list, each entry is the mean of that core's samples since
\* the last flush and lies in [0, 100], and cpu_total_avg is the mean of
\* the per-core averages.
C16_CpuAveragesAreMeans ==
    call.records # <<>> =>
        LET cores == acc.cpu_per_core_avg
        IN  /\ Len(cores) = Len(call.records[1].cpu)
            /\ \A i \in 1..Len(cores) :
                  /\ cores[i] = MeanOfCore(call.records, i)
                  /\ FLeq(FromInt(0), cores[i]) /\ FLeq(cores[i], FromInt(10000))
            /\ FMulInt(acc.cpu_total_avg, Len(cores)) = FSumSeq(cores)

\* C16 witness: three different readings fed, one with a core at 100 and
\* a core at 0, and an average that is not an integer number of hundredths.
C16_Witness ==
    /\ Len(call.records) = 3
    /\ call.records[1] # call.records[2] /\ call.records[3] = SnapPeak
    /\ call.records[1] # SnapPeak /\ call.records[2] # SnapPeak
    /\ acc.cpu_per_core_avg[1][2] # 1

\* The zero state of the accumulator, written out.
C17_ZeroState ==
    [ cpu_per_core_avg |-> <<>>, cpu_total_avg |-> <<0, 1>>, ram_avg |-> <<0, 1>>,
      ram_min |-> <<1, 0>>, ram_max |-> <<0, 1>>, bandwidth_total |-> 0,
      disk_used |-> 0, disk_total |-> 0, sample_count |-> 0 ]

\* The accumulator after the snapshots samples, fed to the zero state.
RECURSIVE C17_Fed(_)
C17_Fed(samples) ==
    IF samples = <<>> THEN C17_ZeroState
    ELSE update_current_stats(C17_Fed(SubSeq(samples, 1, Len(samples) - 1)),
                              samples[Len(samples)])

\* C17: an update adds exactly 1 to sample_count; a flush at sample_count
\* >= 1 returns a record and leaves the zero state; the record is the one
\* the samples fed since the previous flush give from the zero state.
C17_Step ==
    /\ call'.status = "fed" => acc'.sample_count = acc.sample_count + 1
    /\ (call'.status = "flushed" /\ acc.sample_count >= 1) =>
          /\ acc' = C17_ZeroState
          /\ Len(call'.result) = 1
          /\ \E rt \in RamTotals :
                call'.result[1] = FlushRecord(C17_Fed(call.records), clock, rt)
          /\ call'.result[1].min_used
                = SeqMin([k \in 1..Len(call.records) |-> call.records[k].ram_used])
          /\ call'.result[1].transfer_total
                = SumSeq([k \in 1..Len(call.records) |-> call.records[k].transfer_total])

C17_FlushResetsToZeroState == [][C17_Step]_vars

\* C17 witness: a second window flushed after a first one that held other
\* samples, more traffic and a lower RAM minimum.
C17_Witness ==
    /\ call.status = "fed"
    /\ Len(call.records) = 2
    /\ call.result # <<>>
    /\ call.result[1].transfer_total > 150
    /\ call.result[1].min_used = 0
    /\ acc.sample_count = 2
    /\ acc.ram_min = <<301, 1>>
    /\ acc.bandwidth_total = 300


---------------------------------------------------------------------------
MonthsOfDaily == {SubSeq(k, 1, 1) : k \in KeySet(file_1day)}

\* The three files as a cascade leaves them: every date of the hourly
\* series has its daily record and every month of the daily series its
\* monthly record.
StoreAfterCascade ==
    /\ file_1h.state = "ok" /\ file_1day.state = "ok" /\ file_1month.state = "ok"
    /\ HourlyDates \subseteq KeySet(file_1day)
    /\ MonthsOfDaily \subseteq KeySet(file_1month)

\* C19: when the flush of an hourly tick raises once the record was built,
\* the flushed samples are in the hourly series and the hourly task is
\* still scheduled, so that a later tick occurs.
C19_Step ==
    (/\ StoreAfterCascade
     /\ last'.op = "tick" /\ acc.sample_count > 0
     /\ last'.monthly = ValueError)
    => /\ hourly_task' = "sleeping"
       /\ \E i \in 1..Len(file_1h'.records) :
             file_1h'.records[i].transfer_total >= acc.bandwidth_total

C19_FailedTickIsFollowedByATick == [][C19_Step]_vars

\* C20: a run of _push_to_file_1month over a non-empty daily series writes
\* the monthly file, and every stored monthly record whose month has no
\* daily record and whose key is among the max1month_record_length greatest
\* is in the file written, unchanged.
C20_Step ==
    (/\ last'.op = "pushMonthly" /\ file_1day.state = "ok" /\ Recs1d # <<>>
     /\ \A k \in KeySet(file_1month) \ MonthsOfDaily :
           \A m \in MonthsOfDaily : KeyLt(k, m)) =>
        /\ last'.monthly = "written"
        /\ \A i \in 1..Len(Recs1m) :
              (/\ Recs1m[i].datetime \notin MonthsOfDaily
               /\ Recs1m[i].datetime
                     \in Greatest(MonthsOfDaily \cup KeySet(file_1month),
                                  max1month_record_length))
              => \E j \in 1..Len(file_1month'.records) :
                    file_1month'.records[j] = Recs1m[i]

C20_MonthlyRecordsAreCarriedForward == [][C20_Step]_vars


---------------------------------------------------------------------------
\* The traffic counted in a series.
TotalTransfer(recs) == SumSeq(Field(recs, "transfer_total"))

\* C13: a shutdown with samples accumulated flushes them into the hourly
\* series exactly once (the series then counts the window's traffic once
\* more than before), the tasks are cancelled after that flush, and once
\* the application has stopped no sample is accumulated.
C13_Step ==
    /\ (last'.op = "shutdown" /\ acc.sample_count > 0) =>
          /\ acc'.sample_count = 0
          /\ app' = "stopped" /\ hourly_task' = "cancelled"
          /\ TotalTransfer(file_1h'.records)
                = TotalTransfer(LoadOrEmpty(file_1h)) + acc.bandwidth_total
    /\ app = "stopped" => acc'.sample_count = 0

C13_ShutdownFlushesWindowOnce == [][C13_Step]_vars


---------------------------------------------------------------------------
(* Query level: the query methods of Monitor (monitor.py 296-348) and      *)
(* Server.handle_http (server.py 47-93) over series files that are absent, *)
(* unparseable or hold a series.  call holds the outcome of the last       *)
(* query.                                                                  *)

\* A series file that exists and does not hold JSON.
CorruptFile == [state |-> "corrupt", records |-> <<>>]

\* The exception class of scripts/custom_exception.py.
ClientException == "ClientException"

FileNotFoundError == "FileNotFoundError"

JSONDecodeError == "JSONDecodeError"

\* Zone names a client may send; pytz resolves the first two.
Timezones == {"UTC", "Asia/Ho_Chi_Minh", "Mars/Phobos"}

TzResolves(tz) == tz \in {"UTC", "Asia/Ho_Chi_Minh"}

TzOffset(tz) == IF tz = "Asia/Ho_Chi_Minh" THEN 7 ELSE 0

\* utc_time.astimezone(client_tz).strftime('%m-%d %Hh'): month, day and
\* hour in the client's zone.
HourlyDisplay(dt, tz) ==
    LET h == dt[3] + TzOffset(tz)
    IN  IF h >= 24 THEN <<dt[1], dt[2] + 1, h - 24>> ELSE <<dt[1], dt[2], h>>

\* fromisoformat('YYYY-MM-DD') is midnight of a host that keeps UTC;
\* astimezone(client_tz).strftime('%Y-%m-%d') is the date in the client's zone.
DailyDisplay(dt, tz) == SubSeq(HourlyDisplay(<<dt[1], dt[2], 0>>, tz), 1, 2)

QueryOk(recs) == [status |-> "ok", error |-> "", records |-> recs]

QueryRaised(exc, msg) == [status |-> exc, error |-> msg, records |-> <<>>]

\* Monitor._get_1h_monitor_records from line 300 on: f is the hourly file
\* after the call of push_to_file of lines 297-298.
get_1h_monitor_records(f, tz, max_records) ==
    IF f.state = "missing" THEN QueryRaised(FileNotFoundError, "No such file")
    ELSE IF f.state = "corrupt" THEN QueryRaised(JSONDecodeError, "Expecting value")
    ELSE IF ~TzResolves(tz) THEN QueryRaised(ClientException, "Invalid Timezone")
    ELSE LET recs == LastN(f.records, max_records)
         IN  QueryOk([i \in 1..Len(recs) |->
                 [recs[i] EXCEPT !.datetime = HourlyDisplay(@, tz)]])

\* A variant of the daily query that returns the leading records of the
\* series, as the hourly truncation of push_to_file keeps them.
get_1day_monitor_records_leading(f, tz, max_records) ==
    IF f.state = "missing" THEN QueryRaised(ClientException, "No Data")
    ELSE IF f.state = "corrupt" THEN QueryRaised(JSONDecodeError, "Expecting value")
    ELSE IF ~TzResolves(tz) THEN QueryRaised(ClientException, "Invalid Timezone")
    ELSE LET recs == FirstN(f.records, max_records)
         IN  QueryOk([i \in 1..Len(recs) |->
                 [recs[i] EXCEPT !.datetime = DailyDisplay(@, tz)]])

\* Monitor._get_1day_monitor_records
get_1day_monitor_records(f, tz, max_records) ==
    IF f.state = "missing" THEN QueryRaised(ClientException, "No Data")
    ELSE IF f.state = "corrupt" THEN QueryRaised(JSONDecodeError, "Expecting value")
    ELSE IF ~TzResolves(tz) THEN QueryRaised(ClientException, "Invalid Timezone")
    ELSE LET recs == LastN(f.records, max_records)
         IN  QueryOk([i \in 1..Len(recs) |->
                 [recs[i] EXCEPT !.datetime = DailyDisplay(@, tz)]])

\* Monitor._get_1month_monitor_records
get_1month_monitor_records(f, max_records) ==
    IF f.state = "missing" THEN QueryRaised(ClientException, "No Data")
    ELSE IF f.state = "corrupt" THEN QueryRaised(JSONDecodeError, "Expecting value")
    ELSE QueryOk(LastN(f.records, max_records))

\* The status handle_http answers with (server.py 72-85).
HttpStatus(r) ==
    IF r.status = "ok" THEN 200
    ELSE IF r.status = ClientException THEN 404
    ELSE 500


\* The window sizes the public query methods pass as max_records
\* (monitor.py 339, 342, 345, 348: 24, 7, 30 and 12), scaled like the
\* retention limits: the 24-hour and 7-day windows are shorter than the
\* series retained, the 30-day and 12-month windows are as long as it.
max_records_24h == 2

max_records_7days == 2

max_records_30days == 3

max_records_12months == 2

\* Lines 297-298 of _get_1h_monitor_records: push_to_file when the hourly
\* file does not exist.
LazyPush ==
    IF file_1h.state = "missing"
    THEN \E now \in Instants, rt \in RamTotals :
            KeyLt(clock, now) /\ push_to_file("query", now, rt)
    ELSE UNCHANGED <<acc, file_1h, file_1day, file_1month, clock, last>>

\* The outcome of _get_1h_monitor_records once LazyPush has acted: the
\* exception of the monthly stage if the flush raised it.
Outcome1h(tz, max_records) ==
    IF file_1h.state = "missing" /\ acc.sample_count > 0 /\ last'.monthly = ValueError
    THEN QueryRaised(ValueError, "Invalid isoformat string")
    ELSE get_1h_monitor_records(file_1h', tz, max_records)

QueryCall(op, tz, r) ==
    [op |-> op, tz |-> tz, status |-> r.status, error |-> r.error,
     http |-> 0, result |-> r.records]

\* Monitor.get_last_24h_monitor_data(client_time_zone)
Get24h ==
    /\ LazyPush
    /\ \E tz \in Timezones : call' = QueryCall("24h", tz, Outcome1h(tz, max_records_24h))
    /\ UNCHANGED <<app, hourly_task, nsamples, nruns>>

\* Monitor.get_last_7days_monitor_data(client_time_zone)
Get7days ==
    /\ \E tz \in Timezones :
          call' = QueryCall("7days", tz, get_1day_monitor_records(file_1day, tz, max_records_7days))
    /\ UNCHANGED <<acc, file_1h, file_1day, file_1month, clock, app,
                   hourly_task, last, nsamples, nruns>>

\* Monitor.get_last_30days_monitor_data(client_time_zone)
Get30days ==
    /\ \E tz \in Timezones :
          call' = QueryCall("30days", tz, get_1day_monitor_records(file_1day, tz, max_records_30days))
    /\ UNCHANGED <<acc, file_1h, file_1day, file_1month, clock, app,
                   hourly_task, last, nsamples, nruns>>

\* Monitor.get_last_12months_monitor_data()
Get12months ==
    /\ call' = QueryCall("12months", "-", get_1month_monitor_records(file_1month, max_records_12months))
    /\ UNCHANGED <<acc, file_1h, file_1day, file_1month, clock, app,
                   hourly_task, last, nsamples, nruns>>

\* Server.handle_http: the four queries in turn; the first exception
\* decides the answer.
handle_http ==
    /\ LazyPush
    /\ \E tz \in Timezones :
          LET r1 == Outcome1h(tz, max_records_24h)
              r2 == get_1day_monitor_records(file_1day', tz, max_records_7days)
              r3 == get_1day_monitor_records(file_1day', tz, max_records_30days)
              r4 == get_1month_monitor_records(file_1month', max_records_12months)
              r  == IF r1.status # "ok" THEN r1
                    ELSE IF r2.status # "ok" THEN r2
                    ELSE IF r3.status # "ok" THEN r3
                    ELSE IF r4.status # "ok" THEN r4
                    ELSE QueryOk(<<r1.records, r2.records, r3.records, r4.records>>)
          IN  call' = [QueryCall("http", tz, r) EXCEPT !.http = HttpStatus(r)]
    /\ UNCHANGED <<app, hourly_task, nsamples, nruns>>

\* The short series a store is drawn from here.
QueryInstants == {<<1, 1, 0, 0>>, <<1, 1, 1, 0>>, <<1, 2, 1, 0>>, <<2, 1, 0, 0>>}

QueryHourly ==
    {x \in HourlySeries :
        Len(x) <= 3 /\ \A i \in 1..Len(x) : x[i].datetime \in QueryInstants}

QueryDaily ==
    {x \in DailySeries :
        \A i \in 1..Len(x) : x[i].datetime \in {DateKey(t) : t \in QueryInstants}}

QueryMonthly ==
    {x \in MonthlySeries : Len(x) = 1 /\ x[1].datetime = <<1>>}

InitQuery ==
    /\ file_1h \in {MissingFile, CorruptFile} \cup {FileOf(x) : x \in QueryHourly}
    /\ file_1day \in {MissingFile, CorruptFile} \cup {FileOf(x) : x \in QueryDaily}
    /\ file_1month \in {MissingFile, CorruptFile} \cup {FileOf(x) : x \in QueryMonthly}
    /\ acc \in {ZeroAcc, update_current_stats(ZeroAcc, SnapBusy)}
    /\ clock = ClockAfter(file_1h, file_1day, file_1month)
    /\ app = "running"
    /\ hourly_task = "sleeping"
    /\ last = NoOp
    /\ nsamples = MaxSamples
    /\ nruns = 0
    /\ call = NoCall

NextQuery == Get24h \/ Get7days \/ Get30days \/ Get12months \/ handle_http \/ HourlyTick

SpecQuery == InitQuery /\ [][NextQuery]_vars


\* A step of a query that leaves the accumulator and the clock alone.
PureQueryStep(ops) ==
    call'.op \in ops /\ UNCHANGED <<acc, clock, last, hourly_task>>

\* A step of the hourly query (or of the handler) that found no hourly file.
LazyQueryStep(ops) ==
    call'.op \in ops /\ file_1h.state = "missing" /\ last'.op = "query"

\* C11: an hourly or daily query with a zone name that does not resolve
\* raises ClientException "Invalid Timezone" (the daily one "No Data" if
\* its file is missing too), a daily or monthly query whose file does not
\* exist raises ClientException "No Data", and the handler answers 404
\* exactly for a ClientException.
C11_Step ==
    /\ ((PureQueryStep({"24h"}) \/ LazyQueryStep({"24h"})) /\ ~TzResolves(call'.tz)) =>
          call'.status = ClientException /\ call'.error = "Invalid Timezone"
    /\ (PureQueryStep({"7days", "30days"}) /\ ~TzResolves(call'.tz)) =>
          /\ call'.status = ClientException
          /\ call'.error = IF file_1day.state = "missing" THEN "No Data"
                           ELSE "Invalid Timezone"
    /\ (PureQueryStep({"7days", "30days"}) /\ file_1day.state = "missing") =>
          call'.status = ClientException /\ call'.error = "No Data"
    /\ (PureQueryStep({"12months"}) /\ file_1month.state = "missing") =>
          call'.status = ClientException /\ call'.error = "No Data"
    /\ (PureQueryStep({"http"}) \/ LazyQueryStep({"http"})) =>
          (call'.http = 404 <=> call'.status = ClientException)

C11_QueryErrorsAreClientExceptions == [][C11_Step]_vars

\* C12 (for an unparseable file; a missing daily or monthly file is the
\* "No Data" case of C11): a query over an unparseable series file returns
\* the empty series, and a flush with a sample over an unreadable hourly
\* file persists the new record.
C12_Step ==
    /\ (PureQueryStep({"24h"}) /\ file_1h.state = "corrupt" /\ TzResolves(call'.tz)) =>
          call'.status = "ok" /\ call'.result = <<>>
    /\ (PureQueryStep({"7days", "30days"}) /\ file_1day.state = "corrupt"
            /\ TzResolves(call'.tz)) =>
          call'.status = "ok" /\ call'.result = <<>>
    /\ (PureQueryStep({"12months"}) /\ file_1month.state = "corrupt") =>
          call'.status = "ok" /\ call'.result = <<>>
    /\ (last'.op = "tick" /\ acc.sample_count > 0 /\ file_1h.state # "ok") =>
          /\ file_1h'.state = "ok"
          /\ Len(file_1h'.records) = 1
          /\ file_1h'.records[1].transfer_total = acc.bandwidth_total

C12_UnreadableFileIsAnEmptySeries == [][C12_Step]_vars

\* C18: an hourly query that finds no hourly file returns a sequence of
\* records, whatever the accumulator holds.
C18_Step ==
    (LazyQueryStep({"24h"}) /\ TzResolves(call'.tz)) =>
        call'.status = "ok"

C18_HourlyQueryWithoutFileReturnsRecords == [][C18_Step]_vars

---------------------------------------------------------------------------
(* The order of the stages within one hourly tick. *)

\* An hourly tick that finds samples in the accumulator.
TickFlushStep == last'.op = "tick" /\ acc.sample_count > 0

\* The records of series recs whose key, cut to n components, is k.
OfKey(recs, n, k) == SelectSeq(recs, LAMBDA r : SubSeq(r.datetime, 1, n) = k)

\* C21: on an hourly tick that flushes at least one sample the accumulator
\* is reset and the hourly series written, the daily stage then works from
\* the hourly series as this tick wrote it (each daily record carries the
\* traffic of the hourly records of its date now stored plus that of the
\* daily record it replaces), and the monthly stage then works from the
\* daily series as this tick wrote it (each monthly record carries the
\* traffic of the daily records of its month now stored plus that of the
\* monthly record it replaces); a monthly stage that raises leaves the
\* hourly and daily series of this tick written.
C21_Step ==
    TickFlushStep =>
        /\ acc'.sample_count = 0
        /\ file_1h'.state = "ok" /\ file_1h'.records # <<>>
        /\ last'.daily = "written"
        /\ file_1day'.state = "ok"
        /\ \A i \in 1..Len(file_1day'.records) :
              LET d == file_1day'.records[i]
              IN  d.transfer_total
                    = TotalTransfer(OfKey(file_1h'.records, 2, d.datetime))
                      + TotalTransfer(OfKey(LoadOrEmpty(file_1day), 2, d.datetime))
        /\ last'.monthly \in {"written", ValueError}
        /\ last'.monthly = ValueError => file_1month' = file_1month
        /\ last'.monthly = "written" =>
              /\ file_1month'.state = "ok"
              /\ \A i \in 1..Len(file_1month'.records) :
                    LET m == file_1month'.records[i]
                    IN  m.transfer_total
                          = TotalTransfer(OfKey(file_1day'.records, 1, m.datetime))
                            + TotalTransfer(OfKey(LoadOrEmpty(file_1month), 1, m.datetime))

C21_TickStagesReadWhatThePreviousWrote == [][C21_Step]_vars

\* A tick has appended an hourly record with traffic to a stored series,
\* and the daily and monthly series written by it hold two dates.
C21_Witness ==
    /\ last.op = "tick" /\ last.hourly = "appended"
    /\ last.daily = "written" /\ last.monthly = "written"
    /\ Len(Recs1h) >= 2 /\ Len(Recs1d) >= 2 /\ Len(Recs1m) >= 1
    /\ Recs1h[Len(Recs1h)].transfer_total > 0
    /\ Recs1d[Len(Recs1d)].transfer_total > 0

---------------------------------------------------------------------------
(* What a query returns and what it leaves alone. *)

\* A step in which one of the queries ops was answered.
AnsweredStep(ops) == call' # call /\ call'.op \in ops

\* result is the trailing window of at most n records of stored, in stored
\* order, each equal to the stored record but for its datetime.
IsTrailingWindow(result, stored, n) ==
    LET k == Len(result)
    IN  /\ k <= n
        /\ k = Min2(n, Len(stored))
        /\ \A i \in 1..k :
              [result[i] EXCEPT !.datetime = stored[Len(stored) - k + i].datetime]
                  = stored[Len(stored) - k + i]

\* The datetime of each returned record is the display of the stored one.
IsDisplayOf(result, stored, Display(_)) ==
    \A i \in 1..Len(result) :
        result[i].datetime = Display(stored[Len(stored) - Len(result) + i].datetime)

\* C23: a daily or monthly query leaves the three series files and the
\* accumulator unchanged; a query that succeeds returns at most max_records
\* records, the last max_records of the stored series in stored order (for
\* the hourly query, of the series as stored once the query has run); the
\* hourly and daily records returned differ from the stored ones in nothing
\* but the datetime, which is the stored one displayed in the client's
\* zone, and the monthly records are returned as stored.
C23_Step ==
    /\ AnsweredStep({"7days", "30days", "12months"}) =>
          UNCHANGED <<file_1h, file_1day, file_1month, acc>>
    /\ (AnsweredStep({"24h"}) /\ call'.status = "ok") =>
          /\ IsTrailingWindow(call'.result, file_1h'.records, max_records_24h)
          /\ IsDisplayOf(call'.result, file_1h'.records,
                         LAMBDA dt : HourlyDisplay(dt, call'.tz))
    /\ (AnsweredStep({"7days"}) /\ call'.status = "ok") =>
          /\ IsTrailingWindow(call'.result, file_1day.records, max_records_7days)
          /\ IsDisplayOf(call'.result, file_1day.records,
                         LAMBDA dt : DailyDisplay(dt, call'.tz))
    /\ (AnsweredStep({"30days"}) /\ call'.status = "ok") =>
          /\ IsTrailingWindow(call'.result, file_1day.records, max_records_30days)
          /\ IsDisplayOf(call'.result, file_1day.records,
                         LAMBDA dt : DailyDisplay(dt, call'.tz))
    /\ (AnsweredStep({"12months"}) /\ call'.status = "ok") =>
          /\ Len(call'.result) <= max_records_12months
          /\ call'.result = LastN(file_1month.records, max_records_12months)
          /\ IsTrailingWindow(call'.result, file_1month.records, max_records_12months)

C23_QueriesAreReadOnlyTrailingWindows == [][C23_Step]_vars

\* A 7-day query has returned a window shorter than the stored daily
\* series, converted to a zone ahead of UTC.
C23_Witness ==
    /\ call.op = "7days" /\ call.status = "ok" /\ call.tz = "Asia/Ho_Chi_Minh"
    /\ file_1day.state = "ok"
    /\ Len(Recs1d) > max_records_7days
    /\ Len(call.result) = max_records_7days
    /\ call.result[1].transfer_total = Recs1d[Len(Recs1d) - max_records_7days + 1].transfer_total

---------------------------------------------------------------------------
(* Task level: the coroutines of main.py and server.py on the one asyncio  *)
(* event loop, each operation of Monitor cut into the steps of its code.   *)
(* The loop runs one coroutine at a time, from one await to the next.      *)
(* call holds the loop: the coroutine that is running, the position of     *)
(* each coroutine, and the local variables of each.                        *)

Tasks == {"sampling", "hourly", "ws", "http", "cleanup"}

\* The await expressions of main.py: asyncio.sleep(1) (line 20),
\* asyncio.sleep(sleep_time) (line 27), asyncio.gather (line 42).
AwaitsOfMain == {"sleep", "sleep_until_hour", "gather"}

\* The await expressions of server.py: request.json() (line 54),
\* ws.send_json (line 107), asyncio.sleep(1) (line 108).
AwaitsOfServer == {"request_json", "send_json", "ws_sleep"}

\* A variant of Monitor in which the hourly file is written through an
\* awaited call.
AwaitsOfMonitorAsyncPersist == {"persist_hourly"}

\* The await expressions of monitor.py: every method of Monitor is a plain
\* def, none holds an await.
AwaitsOfMonitor == {}

\* The positions at which a coroutine is off the loop: its awaits, and the
\* cleanup callback before the application calls it (main.py 49).
Suspended == AwaitsOfMain \cup AwaitsOfServer \cup AwaitsOfMonitor \cup {"on_cleanup"}

\* Positions at which a coroutine has ended.
Ended == {"cancelled", "failed", "done"}

\* Positions inside update_current_stats or inside push_to_file: the
\* operation has begun and has not returned.
InOperation(p) ==
    p \in {"update_totals", "load_hourly", "persist_hourly", "push_daily", "push_monthly"}

\* Positions whose step reads or writes the accumulator or a series file.
AccessPositions ==
    {"update_averages", "update_totals", "reset", "load_hourly", "persist_hourly",
     "push_daily", "push_monthly", "query_24h", "read_hourly", "read_rest"}

NoLocal == [snap |-> <<>>, rec |-> <<>>, cur |-> <<>>]

\* Where each coroutine is once the application has started
\* (start_background_tasks, main.py 31-33; the handlers of server.py).
StartPosition(t) ==
    CASE t = "sampling" -> "sleep"
      [] t = "hourly"   -> "sleep_until_hour"
      [] t = "ws"       -> "ws_sleep"
      [] t = "http"     -> "request_json"
      [] t = "cleanup"  -> "on_cleanup"

\* The code that follows each await.
Resumed(p) ==
    CASE p = "sleep"            -> "get_snapshot"
      [] p = "ws_sleep"         -> "get_snapshot"
      [] p = "send_json"        -> "ws_sleep"
      [] p = "sleep_until_hour" -> "reset"
      [] p = "request_json"     -> "query_24h"
      [] p = "on_cleanup"       -> "reset"
      [] p = "gather"           -> "done"
      [] OTHER                  -> p

\* Where push_to_file returns to.
AfterPush(t) ==
    CASE t = "hourly"  -> "sleep_until_hour"
      [] t = "http"    -> "read_hourly"
      [] t = "cleanup" -> "cancel"

\* lines 50-65 of update_current_stats: the averages and extremes.
UpdateAverages(a, s) ==
    LET u == update_current_stats(a, s)
    IN  [a EXCEPT !.cpu_per_core_avg = u.cpu_per_core_avg,
                  !.cpu_total_avg = u.cpu_total_avg,
                  !.ram_avg = u.ram_avg,
                  !.ram_min = u.ram_min,
                  !.ram_max = u.ram_max]

\* lines 67-70 of update_current_stats: the totals and sample_count.
UpdateTotals(a, s) ==
    [a EXCEPT !.bandwidth_total = @ + s.transfer_total,
              !.disk_used = s.disk_used,
              !.disk_total = s.disk_total,
              !.sample_count = @ + 1]

\* Coroutine t goes on to position p with locals loc; it leaves the loop if
\* p is an await or an end.
Move(t, p, loc) ==
    call' = [call EXCEPT !.pc[t] = p,
                         !.local[t] = loc,
                         !.running = IF p \in Suspended \cup Ended THEN "none" ELSE t]

At(t, p) == call.running = t /\ call.pc[t] = p

InitTasks ==
    /\ acc = ZeroAcc
    /\ file_1h = MissingFile
    /\ file_1day = MissingFile
    /\ file_1month = MissingFile
    /\ clock = StartInstant
    /\ app = "running"
    /\ hourly_task = "sleeping"
    /\ last = NoOp
    /\ nsamples = 0
    /\ nruns = 0
    /\ call = [op |-> "loop", running |-> "none",
               pc |-> [t \in Tasks |-> StartPosition(t)],
               local |-> [t \in Tasks |-> NoLocal]]

\* The event loop, idle, runs a coroutine whose await has completed.
Resume(t) ==
    /\ app = "running"
    /\ call.running = "none"
    /\ call.pc[t] \in Suspended
    /\ call.pc[t] \in {"sleep", "ws_sleep"} => nsamples < MaxFeed
    /\ LET p == Resumed(call.pc[t])
       IN  call' = [call EXCEPT !.pc[t] = p,
                                !.running = IF p \in (Suspended \ AwaitsOfMonitor) \cup Ended
                                            THEN "none" ELSE t]
    /\ app' = IF Resumed(call.pc[t]) = "done" THEN "stopped" ELSE app
    /\ UNCHANGED <<acc, file_1h, file_1day, file_1month, clock, hourly_task,
                   last, nsamples, nruns>>

\* get_and_update_current_stats, lines 74-99: the snapshot is read.
GetSnapshot(t) ==
    /\ At(t, "get_snapshot")
    /\ \E s \in Snapshots :
          Move(t, "update_averages", [call.local[t] EXCEPT !.snap = <<s>>])
    /\ nsamples' = nsamples + 1
    /\ UNCHANGED <<acc, file_1h, file_1day, file_1month, clock, app, hourly_task,
                   last, nruns>>

UpdateAveragesStep(t) ==
    /\ At(t, "update_averages")
    /\ acc' = UpdateAverages(acc, call.local[t].snap[1])
    /\ Move(t, "update_totals", call.local[t])
    /\ UNCHANGED <<file_1h, file_1day, file_1month, clock, app, hourly_task,
                   last, nsamples, nruns>>

\* The end of update_current_stats; the sampling loop then sleeps
\* (main.py 20), the streaming handler sends the snapshot (server.py 107).
UpdateTotalsStep(t) ==
    /\ At(t, "update_totals")
    /\ acc' = UpdateTotals(acc, call.local[t].snap[1])
    /\ Move(t, IF t = "ws" THEN "send_json" ELSE "sleep", NoLocal)
    /\ UNCHANGED <<file_1h, file_1day, file_1month, clock, app, hourly_task,
                   last, nsamples, nruns>>

\* _get_1h_monitor_records, lines 297-298.
Query24h(t) ==
    /\ At(t, "query_24h")
    /\ Move(t, IF file_1h.state = "missing" THEN "reset" ELSE "read_hourly", NoLocal)
    /\ UNCHANGED <<acc, file_1h, file_1day, file_1month, clock, app, hourly_task,
                   last, nsamples, nruns>>

\* push_to_file, lines 142-144: get_and_reset_stats.
Reset(t) ==
    /\ At(t, "reset")
    /\ IF acc.sample_count = 0
       THEN /\ Move(t, AfterPush(t), NoLocal)
            /\ UNCHANGED <<acc, clock>>
       ELSE \E now \in Instants, rt \in RamTotals :
               /\ KeyLt(clock, now)
               /\ t = "hourly" => now[4] = 0
               /\ acc' = ZeroAcc
               /\ clock' = now
               /\ Move(t, "load_hourly",
                       [call.local[t] EXCEPT !.rec = <<FlushRecord(acc, now, rt)>>])
    /\ UNCHANGED <<file_1h, file_1day, file_1month, app, hourly_task, last,
                   nsamples, nruns>>

\* push_to_file, lines 145-149.
LoadHourly(t) ==
    /\ At(t, "load_hourly")
    /\ Move(t, "persist_hourly", [call.local[t] EXCEPT !.cur = LoadOrEmpty(file_1h)])
    /\ UNCHANGED <<acc, file_1h, file_1day, file_1month, clock, app, hourly_task,
                   last, nsamples, nruns>>

\* push_to_file, lines 151-173.
PersistHourly(t) ==
    /\ At(t, "persist_hourly")
    /\ file_1h' = FileOf(TruncateHourly(MergeOrAppend(call.local[t].cur,
                                                      call.local[t].rec[1])))
    /\ Move(t, "push_daily", call.local[t])
    /\ UNCHANGED <<acc, file_1day, file_1month, clock, app, hourly_task, last,
                   nsamples, nruns>>

\* push_to_file, line 176.
PushDailyStep(t) ==
    /\ At(t, "push_daily")
    /\ file_1day' = Written(PushDaily(file_1h, file_1day), file_1day)
    /\ Move(t, "push_monthly", call.local[t])
    /\ UNCHANGED <<acc, file_1h, file_1month, clock, app, hourly_task, last,
                   nsamples, nruns>>

\* push_to_file, line 177; an exception ends the hourly task and the
\* cleanup callback, and the handler answers it.
PushMonthlyStep(t) ==
    /\ At(t, "push_monthly")
    /\ LET m == PushMonthly(file_1day, file_1month)
       IN  /\ file_1month' = Written(m, file_1month)
           /\ IF m.status = ValueError
              THEN /\ Move(t, CASE t = "hourly"  -> "failed"
                                [] t = "http"    -> "request_json"
                                [] t = "cleanup" -> "done", NoLocal)
                   /\ hourly_task' = IF t = "hourly" THEN "failed" ELSE hourly_task
                   /\ app' = IF t = "cleanup" THEN "stopped" ELSE app
              ELSE /\ Move(t, AfterPush(t), NoLocal)
                   /\ UNCHANGED <<hourly_task, app>>
    /\ UNCHANGED <<acc, file_1h, file_1day, clock, last, nsamples, nruns>>

\* _get_1h_monitor_records, lines 300-311: the hourly file is read; an
\* exception is answered by the handler.
ReadHourly(t) ==
    /\ At(t, "read_hourly")
    /\ Move(t, IF file_1h.state = "ok" THEN "read_rest" ELSE "request_json", NoLocal)
    /\ UNCHANGED <<acc, file_1h, file_1day, file_1month, clock, app, hourly_task,
                   last, nsamples, nruns>>

\* The 7-day, 30-day and 12-month queries of handle_http (server.py 61-63):
\* the daily and monthly files are read and the handler returns.
ReadRest(t) ==
    /\ At(t, "read_rest")
    /\ Move(t, "request_json", NoLocal)
    /\ UNCHANGED <<acc, file_1h, file_1day, file_1month, clock, app, hourly_task,
                   last, nsamples, nruns>>

\* cleanup_background_tasks, lines 40-42: the two tasks are cancelled.
Cancel(t) ==
    /\ At(t, "cancel")
    /\ call' = [call EXCEPT
                  !.pc = [u \in Tasks |->
                            IF u = t THEN "gather"
                            ELSE IF u \in {"sampling", "hourly"} /\ call.pc[u] \notin Ended
                                 THEN "cancelled" ELSE call.pc[u]],
                  !.running = "none"]
    /\ hourly_task' = IF hourly_task = "failed" THEN hourly_task ELSE "cancelled"
    /\ UNCHANGED <<acc, file_1h, file_1day, file_1month, clock, app, last,
                   nsamples, nruns>>

NextTasks ==
    \/ \E t \in Tasks : Resume(t)
    \/ \E t \in {"sampling", "ws"} : GetSnapshot(t)
    \/ \E t \in {"sampling", "ws"} : UpdateAveragesStep(t)
    \/ \E t \in {"sampling", "ws"} : UpdateTotalsStep(t)
    \/ Query24h("http")
    \/ \E t \in {"hourly", "http", "cleanup"} : Reset(t)
    \/ \E t \in {"hourly", "http", "cleanup"} : LoadHourly(t)
    \/ \E t \in {"hourly", "http", "cleanup"} : PersistHourly(t)
    \/ \E t \in {"hourly", "http", "cleanup"} : PushDailyStep(t)
    \/ \E t \in {"hourly", "http", "cleanup"} : PushMonthlyStep(t)
    \/ ReadHourly("http")
    \/ ReadRest("http")
    \/ Cancel("cleanup")

SpecTasks == InitTasks /\ [][NextTasks]_vars

\* Coroutine t takes a step that reads or writes the accumulator or a file.
AccessStep(t) ==
    /\ call.running = t
    /\ call.pc[t] \in AccessPositions
    /\ call' # call

\* C22: in every interleaving of the sampling task, the hourly task, a
\* streaming client, the HTTP handler and the shutdown callback, whenever a
\* coroutine reads or writes the accumulator or a series file no other
\* coroutine is inside update_current_stats or push_to_file; the hourly
\* series a flush persists is merged into the series as it is stored at
\* that moment.
C22_Step ==
    \A t \in Tasks :
        AccessStep(t) =>
            /\ \A u \in Tasks \ {t} : ~InOperation(call.pc[u])
            /\ call.pc[t] = "persist_hourly" =>
                  call.local[t].cur = LoadOrEmpty(file_1h)

C22_NoOperationIsInterleaved == [][C22_Step]_vars

\* The hourly task is between loading and persisting the hourly series
\* while the streaming client and the HTTP handler wait at their awaits
\* and samples have been taken by both sampling coroutines.
C22_Witness ==
    /\ call.op = "loop"
    /\ call.running = "hourly" /\ call.pc["hourly"] = "persist_hourly"
    /\ call.pc["ws"] = "send_json"
    /\ call.pc["http"] = "request_json"
    /\ call.pc["sampling"] = "sleep"
    /\ file_1h.state = "ok"
    /\ nsamples >= 3

===========================================================================
